---- MODULE Spec2Model ----
(***************************************************************************)
(* State-machine model of the BotControl component                         *)
(* (src/src/components/BotControl.tsx) and of the polling hook it uses     *)
(* (src/src/hooks/useApi.ts).                                              *)
(*                                                                         *)
(* Every async handler is cut at its awaits: one action per synchronous    *)
(* segment.  A handler reads the React state of the render it was created  *)
(* in, so the values it captured at invocation travel with the in-flight   *)
(* record; functional updates (setX(prev => ...)) read the current state.  *)
(*                                                                         *)
(* Strings that the code takes apart (startsWith, includes, trim, regular  *)
(* expressions) are sequences of tokens; all other strings are atoms.      *)
(***************************************************************************)
EXTENDS Integers, Sequences, FiniteSets, TLC

\* ------------------------------------------------------------------ bounds
MaxPosts == 2
MaxReplies == 2
MaxGenRuns == 1
MaxCommits == 2
MaxRegens == 2
MaxJobOps == 2
MaxFetches == 1
MaxEffects == 3
MaxCounter == 6
MaxVer == 1

\* --------------------------------------------------------- token strings
NULL == <<>>

RECURSIVE StartsWith(_, _)
\* String.prototype.startsWith on token sequences
StartsWith(s, p) ==
  IF p = <<>> THEN TRUE
  ELSE IF s = <<>> THEN FALSE
  ELSE Head(s) = Head(p) /\ StartsWith(Tail(s), Tail(p))

\* String.prototype.includes for a one-token needle
Includes(s, tok) == \E k \in 1..Len(s) : s[k] = tok

RECURSIVE TrimLeft(_)
TrimLeft(s) == IF s # <<>> /\ Head(s) = " " THEN TrimLeft(Tail(s)) ELSE s

RECURSIVE TrimRight(_)
TrimRight(s) ==
  IF s # <<>> /\ s[Len(s)] = " " THEN TrimRight(SubSeq(s, 1, Len(s) - 1)) ELSE s

\* String.prototype.trim
Trim(s) == TrimRight(TrimLeft(s))

DigitTokens == <<"0", "1", "2", "3", "4", "5", "6", "7", "8", "9">>

IsDigit(tok) == \E d \in 1..10 : DigitTokens[d] = tok

DigitValue(tok) == (CHOOSE d \in 1..10 : DigitTokens[d] = tok) - 1

RECURSIVE ToDigits(_)
\* Number.prototype.toString for a natural number
ToDigits(n) ==
  IF n < 10 THEN <<DigitTokens[n + 1]>>
  ELSE ToDigits(n \div 10) \o <<DigitTokens[(n % 10) + 1]>>

RECURSIVE ParseInt(_, _)
\* parseInt(digits, 10), acc is the value read so far
ParseInt(s, acc) ==
  IF s = <<>> THEN acc ELSE ParseInt(Tail(s), 10 * acc + DigitValue(Head(s)))

\* `Job #${jobCounter}`
AutoName(n) == <<"Job #">> \o ToDigits(n)

\* job.name?.match(/^Job #(\d+)$/)
MatchesJobPattern(name) ==
  /\ Len(name) >= 2
  /\ name[1] = "Job #"
  /\ \A k \in 2..Len(name) : IsDigit(name[k])

RECURSIVE MaxJobNumber(_, _)
\* realJobs.reduce((max, job) => ..., 0)
MaxJobNumber(js, max) ==
  IF js = <<>> THEN max
  ELSE LET n == IF MatchesJobPattern(Head(js).name)
                THEN ParseInt(Tail(Head(js).name), 0) ELSE 0
       IN MaxJobNumber(Tail(js), IF n > max THEN n ELSE max)

RemoveAt(s, k) == SubSeq(s, 1, k - 1) \o SubSeq(s, k + 1, Len(s))

\* RealJobs without its filter
RealJobs_All(js) == js

\* status.jobs.filter(job => !job.id.includes('demo'))
RealJobs(js) == LET Keep(j) == ~Includes(j.id, "demo") IN SelectSeq(js, Keep)

\* `${jobId}-${action}`
JobKey(jobId, action) == jobId \o <<"-", action>>

\* `regenerate-${contentId}`
RegenKey(contentId) == <<"regenerate-">> \o contentId

\* `regenerate-different-${contentId}`
RegenDiffKey(contentId) == <<"regenerate-different-">> \o contentId

\* ------------------------------------------------------- backend replies
J1 == <<"1">>
J10 == <<"1", "0">>
JDemo == <<"demo", "1">>

Job(id, name, type, st) == [id |-> id, name |-> name, type |-> type, status |-> st]

\* The job lists a poll of /api/bot-status can return
Snapshots ==
  { <<>>,
    <<Job(J1, AutoName(1), "posting", "running"),
      Job(J10, AutoName(3), "replying", "stopped")>>,
    <<Job(JDemo, AutoName(9), "posting", "running"),
      Job(J1, <<"x">>, "posting", "stopped")>> }

VARIABLES
  data, loading, error, fetches,
  mounted, endpoint, options, intervalRef, timers, effects,
  jobs, jobCounter, actionLoading, showScheduler, showContentApproval,
  generatedContent, currentJobSettings, currentJobType, apiError,
  postedReplies, showPostedReplies,
  jobOps, renames, genRuns, regens, commits, creates,
  stamp, posted, ev

\* the effect of the hook: its inputs, its ref, the browser's live intervals
timerVars == <<mounted, endpoint, options, intervalRef, timers, effects>>
hookVars == <<data, loading, error, fetches, timerVars>>
viewVars == <<jobs, jobCounter, actionLoading, showScheduler, showContentApproval,
              generatedContent, currentJobSettings, currentJobType, apiError,
              postedReplies, showPostedReplies>>
procVars == <<jobOps, renames, genRuns, regens, commits, creates>>
histVars == <<stamp, posted, ev>>
vars == <<hookVars, viewVars, procVars, histVars>>

\* the step just taken: handler segment, its subject, the backend call issued
Ev(op, arg, call) == [op |-> op, arg |-> arg, call |-> call]

NoCall == <<"none">>

\* useState<T | null>(null) of the hook, and a response body
NoData == [hasJobs |-> FALSE, jobs |-> <<>>, null |-> TRUE]

StatusBody(hasJobs, js) == [hasJobs |-> hasJobs, jobs |-> js, null |-> FALSE]

\* useState<JobSettings | null>(null)
NullSettings == [null |-> TRUE]

\* const { autoRefresh = true, fetchOnMount = true } = options
DefaultOptions == [autoRefresh |-> TRUE, fetchOnMount |-> TRUE]

\* a fetch in flight: the URL it was issued for, and whether a fetch issued
\* after it has already resolved with a 2xx body
Request(e) == [endpoint |-> e, overtaken |-> FALSE]

\* BotControl's useApi<BotStatus>('/api/bot-status') after its first effect
MountedHook ==
  /\ data = NoData /\ loading = TRUE /\ error = "null"
  /\ fetches = <<Request("bot-status")>>
  /\ mounted = TRUE /\ endpoint = "bot-status" /\ options = DefaultOptions
  /\ intervalRef = 1 /\ timers = {1} /\ effects = 1

Init ==
  /\ MountedHook
  /\ jobs = <<>> /\ jobCounter = 1 /\ actionLoading = NULL
  /\ showScheduler = FALSE /\ showContentApproval = FALSE
  /\ generatedContent = <<>> /\ currentJobSettings = NullSettings
  /\ currentJobType = "posting" /\ apiError = "null"
  /\ postedReplies = <<>> /\ showPostedReplies = FALSE
  /\ jobOps = <<>> /\ renames = <<>> /\ genRuns = <<>> /\ regens = <<>>
  /\ commits = <<>> /\ creates = <<>>
  /\ stamp = 0 /\ posted = {} /\ ev = Ev("mount", NULL, <<"GET", "bot-status">>)

\* ------------------------------------------------------ useApi (polling)
\* fetchData up to its await: setLoading(true) unless manual, setError(null).
\* In-flight fetches beyond MaxFetches are not told apart.
fetchData(isManual) ==
  /\ loading' = (IF isManual THEN loading ELSE TRUE)
  /\ error' = "null"
  /\ fetches' = (IF Len(fetches) < MaxFetches
                 THEN Append(fetches, Request(endpoint')) ELSE fetches)
  /\ UNCHANGED data

\* refetch = fetchData(true)
refetch == UNCHANGED timerVars /\ fetchData(TRUE)

\* the setInterval callback of the hook, for an interval the browser still runs
AutoRefresh ==
  /\ Len(fetches) < MaxFetches
  /\ \E t \in timers :
       ev' = Ev("poll", [timer |-> t], <<"GET", endpoint>>)
  /\ UNCHANGED <<timerVars, viewVars, procVars, stamp, posted>>
  /\ fetchData(FALSE)

\* the error banner's "Clear error and retry" button
ClearErrorAndRetry ==
  /\ mounted
  /\ error # "null" \/ apiError # "null"
  /\ ~showScheduler /\ ~showContentApproval /\ ~showPostedReplies
  /\ Len(fetches) < MaxFetches
  /\ apiError' = "null"
  /\ refetch
  /\ ev' = Ev("retry", NULL, <<"GET", endpoint>>)
  /\ UNCHANGED <<jobs, jobCounter, actionLoading, showScheduler, showContentApproval,
                 generatedContent, currentJobSettings, currentJobType,
                 postedReplies, showPostedReplies, procVars, stamp, posted>>

\* the effect on [status]: setJobs(realJobs), setJobCounter(maxJobNumber + 1)
StatusEffectJobs(body, old) == IF body.hasJobs THEN RealJobs(body.jobs) ELSE old

StatusEffectCounter(body, old) ==
  IF body.hasJobs THEN MaxJobNumber(RealJobs(body.jobs), 0) + 1 ELSE old

\* the fetches still in flight once the k-th has resolved; a 2xx answer
\* overtakes every fetch issued before it
Resolved(k, ok) ==
  RemoveAt([j \in 1..Len(fetches) |->
              IF ok /\ j < k THEN [fetches[j] EXCEPT !.overtaken = TRUE]
              ELSE fetches[j]], k)

\* FetchOk that drops the answer of a fetch overtaken by a later one
FetchOk_LatestWins ==
  /\ \E k \in 1..Len(fetches), hasJobs \in BOOLEAN, js \in Snapshots :
       LET body == StatusBody(hasJobs, IF hasJobs THEN js ELSE <<>>)
           stale == fetches[k].overtaken IN
       /\ data' = (IF stale THEN data ELSE body)
       /\ jobs' = (IF stale THEN jobs ELSE StatusEffectJobs(body, jobs))
       /\ jobCounter' = (IF stale THEN jobCounter
                         ELSE StatusEffectCounter(body, jobCounter))
       /\ fetches' = Resolved(k, TRUE)
       /\ ev' = Ev("snapshot", [request |-> fetches[k], body |-> body], NoCall)
  /\ loading' = FALSE
  /\ UNCHANGED <<error, timerVars, actionLoading, showScheduler, showContentApproval,
                 generatedContent, currentJobSettings, currentJobType, apiError,
                 postedReplies, showPostedReplies, procVars, stamp, posted>>

\* a fetch resolves with a 2xx body: setData(result), then the status effect
FetchOk ==
  /\ \E k \in 1..Len(fetches), hasJobs \in BOOLEAN, js \in Snapshots :
       LET body == StatusBody(hasJobs, IF hasJobs THEN js ELSE <<>>) IN
       /\ data' = body
       /\ jobs' = StatusEffectJobs(body, jobs)
       /\ jobCounter' = StatusEffectCounter(body, jobCounter)
       /\ fetches' = Resolved(k, TRUE)
       /\ ev' = Ev("snapshot", [request |-> fetches[k], body |-> body], NoCall)
  /\ loading' = FALSE
  /\ UNCHANGED <<error, timerVars, actionLoading, showScheduler, showContentApproval,
                 generatedContent, currentJobSettings, currentJobType, apiError,
                 postedReplies, showPostedReplies, procVars, stamp, posted>>

\* the ways a fetch fails: a non-2xx status, or fetch() rejecting
FetchFailures == {500, 429, 0}

\* `HTTP error! status: ${response.status}`, one template for every status
HttpErrorMessage(status) ==
  IF status = 429 THEN "HTTP error! status: 429" ELSE "HTTP error! status: 500"

\* err.message: the template's text for a non-2xx answer,
\* the browser's message when fetch() rejects (failure 0)
ErrorMessage(failure) ==
  IF failure = 0 THEN "Failed to fetch" ELSE HttpErrorMessage(failure)

\* FetchFail whose catch also resets data
FetchFail_ClearsData ==
  /\ \E k \in 1..Len(fetches), failure \in FetchFailures :
       /\ error' = ErrorMessage(failure)
       /\ fetches' = Resolved(k, FALSE)
       /\ ev' = Ev("poll_failed", [request |-> fetches[k], failure |-> failure], NoCall)
  /\ data' = NoData
  /\ loading' = FALSE
  /\ UNCHANGED <<timerVars, viewVars, procVars, stamp, posted>>

\* a fetch fails (non-2xx or network error): setError, data kept
FetchFail ==
  /\ \E k \in 1..Len(fetches), failure \in FetchFailures :
       /\ error' = ErrorMessage(failure)
       /\ fetches' = Resolved(k, FALSE)
       /\ ev' = Ev("poll_failed", [request |-> fetches[k], failure |-> failure], NoCall)
  /\ loading' = FALSE
  /\ UNCHANGED <<data, timerVars, viewVars, procVars, stamp, posted>>

\* the cleanup of the effect: clearInterval(intervalRef.current) without
\* the clearInterval
Cleanup_KeepsInterval(live) == live

\* the cleanup of the effect: if (intervalRef.current) clearInterval(...)
Cleanup(live) == IF intervalRef # 0 THEN live \ {intervalRef} ELSE live

\* the endpoints the hook is rendered with
Endpoints == {"bot-status", "recent-posts"}

\* the options the call sites pass: none, or { autoRefresh: false }
OptionInputs ==
  {DefaultOptions, [autoRefresh |-> FALSE, fetchOnMount |-> TRUE]}

\* the body of the effect, run for the (effects + 1)-th time after `live`
\* intervals were left by the cleanup: the initial fetch and setInterval
RunEffect(live, inFlight) ==
  /\ effects' = effects + 1
  /\ fetches' = (IF options'.fetchOnMount /\ Len(inFlight) < MaxFetches
                 THEN Append(inFlight, Request(endpoint')) ELSE inFlight)
  /\ loading' = (IF options'.fetchOnMount THEN TRUE ELSE loading)
  /\ error' = (IF options'.fetchOnMount THEN "null" ELSE error)
  /\ timers' = (IF options'.autoRefresh THEN live \cup {effects + 1} ELSE live)
  /\ intervalRef' = (IF options'.autoRefresh THEN effects + 1 ELSE 0)

\* the component leaves the page: the cleanup runs; answers to the fetches
\* still in flight reach an instance that no longer renders
Unmount ==
  /\ mounted
  /\ mounted' = FALSE
  /\ timers' = Cleanup(timers)
  /\ intervalRef' = 0
  /\ fetches' = <<>>
  /\ ev' = Ev("unmount", NULL, NoCall)
  /\ UNCHANGED <<data, loading, error, endpoint, options, effects,
                 viewVars, procVars, stamp, posted>>

\* a new instance is rendered: initial state everywhere, then the effect
Mount ==
  /\ ~mounted
  /\ effects < MaxEffects
  /\ mounted' = TRUE
  /\ \E e \in Endpoints, o \in OptionInputs :
       /\ endpoint' = e
       /\ options' = o
  /\ data' = NoData
  /\ RunEffect(timers, <<>>)
  /\ jobs' = <<>> /\ jobCounter' = 1 /\ actionLoading' = NULL
  /\ showScheduler' = FALSE /\ showContentApproval' = FALSE
  /\ generatedContent' = <<>> /\ currentJobSettings' = NullSettings
  /\ currentJobType' = "posting" /\ apiError' = "null"
  /\ postedReplies' = <<>> /\ showPostedReplies' = FALSE
  /\ jobOps' = <<>> /\ renames' = <<>> /\ genRuns' = <<>> /\ regens' = <<>>
  /\ commits' = <<>> /\ creates' = <<>>
  /\ ev' = Ev("mount", NULL, <<"GET", endpoint'>>)
  /\ UNCHANGED <<stamp, posted>>

\* a render with another endpoint: cleanup of the previous effect, then the
\* effect again (its dependencies are [endpoint, fetchData])
ChangeEndpoint ==
  /\ mounted
  /\ effects < MaxEffects
  /\ \E e \in Endpoints \ {endpoint} : endpoint' = e
  /\ UNCHANGED <<mounted, options, data>>
  /\ RunEffect(Cleanup(timers), fetches)
  /\ ev' = Ev("endpoint", NULL, <<"GET", endpoint'>>)
  /\ UNCHANGED <<viewVars, procVars, stamp, posted>>

\* ------------------------------------------------------------ job registry
\* the page behind a `fixed inset-0` modal overlay takes no clicks
NoModal == ~showScheduler /\ ~showContentApproval /\ ~showPostedReplies

\* JobCard: actionLoading?.startsWith(job.id)
IsLoading(job) == StartsWith(actionLoading, job.id)

\* JobCard: the one button shown is Stop for a running job, Start otherwise
ButtonAction(job) == IF job.status = "running" THEN "stop" ELSE "start"

\* handleJobAction up to its await
handleJobAction ==
  /\ NoModal
  /\ Len(jobOps) < MaxJobOps
  /\ \E k \in 1..Len(jobs) :
       LET job == jobs[k]
           action == ButtonAction(job) IN
       /\ ~IsLoading(job)
       /\ actionLoading' = JobKey(job.id, action)
       /\ apiError' = "null"
       /\ jobOps' = Append(jobOps, [jobId |-> job.id, action |-> action, phase |-> "call"])
       /\ ev' = Ev("job_action", job.id, <<"POST", "bot-job", action>>)
  /\ UNCHANGED <<hookVars, jobs, jobCounter, showScheduler, showContentApproval,
                 generatedContent, currentJobSettings, currentJobType,
                 postedReplies, showPostedReplies,
                 renames, genRuns, regens, commits, creates, stamp, posted>>

\* JobActionOk that refetches and clears the marker without the delay
JobActionOk_NoDelay ==
  /\ \E k \in 1..Len(jobOps) :
       /\ jobOps[k].phase = "call"
       /\ jobOps' = RemoveAt(jobOps, k)
       /\ ev' = Ev("job_action_ok", jobOps[k].jobId, <<"GET", "bot-status">>)
  /\ refetch
  /\ actionLoading' = NULL
  /\ UNCHANGED <<jobs, jobCounter, showScheduler, showContentApproval,
                 generatedContent, currentJobSettings, currentJobType, apiError,
                 postedReplies, showPostedReplies,
                 renames, genRuns, regens, commits, creates, stamp, posted>>

\* the command resolved: setTimeout(..., 1000) is armed
JobActionOk ==
  /\ \E k \in 1..Len(jobOps) :
       /\ jobOps[k].phase = "call"
       /\ jobOps' = [jobOps EXCEPT ![k].phase = "timer"]
       /\ ev' = Ev("job_action_ok", jobOps[k].jobId, NoCall)
  /\ UNCHANGED <<hookVars, viewVars, renames, genRuns, regens, commits, creates,
                 stamp, posted>>

\* the command threw: catch branch
JobActionFail ==
  /\ \E k \in 1..Len(jobOps) :
       /\ jobOps[k].phase = "call"
       /\ apiError' = "Failed to act on job"
       /\ actionLoading' = NULL
       /\ jobOps' = RemoveAt(jobOps, k)
       /\ ev' = Ev("job_action_failed", jobOps[k].jobId, NoCall)
  /\ UNCHANGED <<hookVars, jobs, jobCounter, showScheduler, showContentApproval,
                 generatedContent, currentJobSettings, currentJobType,
                 postedReplies, showPostedReplies,
                 renames, genRuns, regens, commits, creates, stamp, posted>>

\* the 1000 ms timer fires: refetch(); setActionLoading(null)
JobActionTimer ==
  /\ \E k \in 1..Len(jobOps) :
       /\ jobOps[k].phase = "timer"
       /\ jobOps' = RemoveAt(jobOps, k)
       /\ ev' = Ev("job_action_timer", jobOps[k].jobId, <<"GET", "bot-status">>)
  /\ refetch
  /\ actionLoading' = NULL
  /\ UNCHANGED <<jobs, jobCounter, showScheduler, showContentApproval,
                 generatedContent, currentJobSettings, currentJobType, apiError,
                 postedReplies, showPostedReplies,
                 renames, genRuns, regens, commits, creates, stamp, posted>>

\* names a user can type into the rename box (handleSaveEdit trims them)
RenameInputs == { <<"y">>, <<" ">> \o AutoName(5) }

\* handleJobRename up to its await (handleSaveEdit passes a non-blank trimmed name)
handleJobRename ==
  /\ NoModal
  /\ renames = <<>>
  /\ \E k \in 1..Len(jobs), typed \in RenameInputs :
       /\ Trim(typed) # <<>>
       /\ renames' = <<[jobId |-> jobs[k].id, newName |-> Trim(typed)]>>
       /\ ev' = Ev("rename", jobs[k].id, <<"POST", "bot-job", "rename">>)
  /\ apiError' = "null"
  /\ UNCHANGED <<hookVars, jobs, jobCounter, actionLoading, showScheduler,
                 showContentApproval, generatedContent, currentJobSettings,
                 currentJobType, postedReplies, showPostedReplies,
                 jobOps, genRuns, regens, commits, creates, stamp, posted>>

\* setJobs(prev => prev.map(job => job.id === jobId ? {...job, name} : job))
PatchName(js, jobId, newName) ==
  [k \in 1..Len(js) |-> IF js[k].id = jobId THEN [js[k] EXCEPT !.name = newName] ELSE js[k]]

\* the rename call resolved with result.success true or false
RenameDone ==
  /\ renames # <<>>
  /\ \E success \in BOOLEAN :
       /\ jobs' = (IF success THEN PatchName(jobs, renames[1].jobId, renames[1].newName)
                   ELSE jobs)
       /\ ev' = Ev(IF success THEN "rename_ok" ELSE "rename_refused", renames[1].jobId, NoCall)
  /\ renames' = <<>>
  /\ UNCHANGED <<hookVars, jobCounter, actionLoading, showScheduler, showContentApproval,
                 generatedContent, currentJobSettings, currentJobType, apiError,
                 postedReplies, showPostedReplies,
                 jobOps, genRuns, regens, commits, creates, stamp, posted>>

\* the rename call threw
RenameFail ==
  /\ renames # <<>>
  /\ apiError' = "Failed to rename job"
  /\ renames' = <<>>
  /\ ev' = Ev("rename_failed", renames[1].jobId, NoCall)
  /\ UNCHANGED <<hookVars, jobs, jobCounter, actionLoading, showScheduler,
                 showContentApproval, generatedContent, currentJobSettings,
                 currentJobType, postedReplies, showPostedReplies,
                 jobOps, genRuns, regens, commits, creates, stamp, posted>>

\* the "New Job" button: disabled={actionLoading === 'create'}
OpenScheduler ==
  /\ NoModal
  /\ actionLoading # <<"create">>
  /\ showScheduler' = TRUE
  /\ ev' = Ev("open_scheduler", NULL, NoCall)
  /\ UNCHANGED <<hookVars, jobs, jobCounter, actionLoading, showContentApproval,
                 generatedContent, currentJobSettings, currentJobType, apiError,
                 postedReplies, showPostedReplies, procVars, stamp, posted>>

\* EnhancedJobScheduler onClose (X / Cancel)
CloseScheduler ==
  /\ showScheduler
  /\ showScheduler' = FALSE
  /\ ev' = Ev("close_scheduler", NULL, NoCall)
  /\ UNCHANGED <<hookVars, jobs, jobCounter, actionLoading, showContentApproval,
                 generatedContent, currentJobSettings, currentJobType, apiError,
                 postedReplies, showPostedReplies, procVars, stamp, posted>>

\* ------------------------------------------------------ batch generation
\* "HH:MM" as tokens
T0900 == <<"0", "9", ":", "0", "0">>
T1700 == <<"1", "7", ":", "0", "0">>

\* startTime.split(':').map(Number): the part before and after the colon
ColonAt(t) == CHOOSE k \in 1..Len(t) : t[k] = ":"

HourOf(t) == ParseInt(SubSeq(t, 1, ColonAt(t) - 1), 0)

MinuteOf(t) == ParseInt(SubSeq(t, ColonAt(t) + 1, Len(t)), 0)

\* n.toString().padStart(2, '0')
Pad2(n) == IF n < 10 THEN <<"0">> \o ToDigits(n) ELSE ToDigits(n)

FormatTime(minutes) == Pad2(minutes \div 60) \o <<":">> \o Pad2(minutes % 60)

\* generateScheduledTimes that rounds the interval up
generateScheduledTimes_RoundUp(count, startTime, endTime) ==
  LET startMinutes == HourOf(startTime) * 60 + MinuteOf(startTime)
      endMinutes == HourOf(endTime) * 60 + MinuteOf(endTime)
      totalMinutes == endMinutes - startMinutes
      interval == (totalMinutes + count - 1) \div count
  IN [i \in 1..count |-> FormatTime(startMinutes + interval * (i - 1))]

\* generateScheduledTimes(count, startTime, endTime)
generateScheduledTimes(count, startTime, endTime) ==
  LET startMinutes == HourOf(startTime) * 60 + MinuteOf(startTime)
      endMinutes == HourOf(endTime) * 60 + MinuteOf(endTime)
      totalMinutes == endMinutes - startMinutes
      interval == totalMinutes \div count
  IN [i \in 1..count |-> FormatTime(startMinutes + interval * (i - 1))]

\* what the scheduler form can submit
JobNameInputs == { <<>>, <<" ">>, <<"x">> }

TopicInputs == { <<>>, <<"A">>, <<"A", "B">> }

PostingSettings ==
  { [postsPerDay |-> n, topics |-> ts, postingTimeStart |-> T0900,
     postingTimeEnd |-> T1700, maxRepliesPerHour |-> 0, name |-> <<>>, null |-> FALSE] :
      n \in 1..MaxPosts, ts \in TopicInputs }

ReplySettings ==
  { [postsPerDay |-> 0, topics |-> <<>>, postingTimeStart |-> T0900,
     postingTimeEnd |-> T1700, maxRepliesPerHour |-> n, name |-> <<>>, null |-> FALSE] :
      n \in 1..MaxReplies }

\* x || 5
OrFive(x) == IF x = 0 THEN 5 ELSE x

\* jobSettings.topics?.[Math.floor(Math.random() * length)] || 'Pokemon TCG'
RandomTopics(topics) ==
  IF topics = <<>> THEN {"Pokemon TCG"} ELSE {topics[k] : k \in 1..Len(topics)}

\* the source messages of the sheet
Tweet(id) == [id |-> id, text |-> <<"text of", id>>, author |-> <<"author of", id>>]

Pools == { <<>>, <<Tweet("t1")>>, <<Tweet("t1"), Tweet("t2"), Tweet("t3")>> }

\* tweets.slice(0, numReplies)
Slice(s, n) == SubSeq(s, 1, IF n < Len(s) THEN n ELSE Len(s))

\* `post-${Date.now()}-${i}`: the clock reading is the run's serial number
ItemId(prefix, st, i) == <<prefix>> \o ToDigits(st) \o <<"-">> \o ToDigits(i)

\* texts a regeneration can bring; the first draft of a generation run is text 0
Versions == 1..MaxVer

Drafts == {0}

\* text (and metadata) the backend writes for a topic or a tweet
Generated(about, v) == [about |-> about, v |-> v]

PostItem(st, i, topic, v) ==
  [id |-> ItemId("post-", st, i), content |-> Generated(<<topic>>, v), type |-> "post",
   topic |-> topic, originalTweet |-> <<>>, tweetId |-> "undefined", tweetAuthor |-> <<>>,
   approved |-> "null", scheduledTime |-> <<>>, engagement_score |-> v]

ReplyItem(st, i, tweet, v) ==
  [id |-> ItemId("reply-", st, i), content |-> Generated(tweet.text, v), type |-> "reply",
   topic |-> "undefined", originalTweet |-> tweet.text, tweetId |-> tweet.id,
   tweetAuthor |-> tweet.author,
   approved |-> "null", scheduledTime |-> <<"On Approval">>, engagement_score |-> 0]

\* content.forEach((item, index) => item.scheduledTime = scheduledTimes[index])
AssignTimes(content, times) ==
  [k \in 1..Len(content) |-> [content[k] EXCEPT !.scheduledTime = times[k]]]

\* EnhancedJobScheduler: loading={actionLoading === 'create' || ... 'generate-content'}
SchedulerLoading == actionLoading = <<"create">> \/ actionLoading = <<"generate-content">>

\* createJobWithApproval up to its first await
createJobWithApproval ==
  /\ showScheduler
  /\ ~SchedulerLoading
  /\ stamp < MaxGenRuns
  /\ \E jobName \in JobNameInputs, jobType \in {"posting", "replying"} :
     \E jobSettings \in (IF jobType = "posting" THEN PostingSettings ELSE ReplySettings) :
     \E topic \in RandomTopics(jobSettings.topics) :
       LET blank == Trim(jobName) = <<>>
           finalJobName == IF blank THEN AutoName(jobCounter) ELSE Trim(jobName)
           run == [type |-> jobType, settings |-> jobSettings, name |-> finalJobName,
                   stamp |-> stamp + 1, i |-> 0, content |-> <<>>, tweets |-> <<>>,
                   outcomes |-> <<>>, pool |-> "none",
                   phase |-> IF jobType = "posting" THEN "gen" ELSE "fetch",
                   topic |-> IF jobType = "posting" THEN topic ELSE "undefined"]
       IN
       /\ (jobType = "replying" => topic = CHOOSE t \in RandomTopics(jobSettings.topics) : TRUE)
       /\ jobCounter' = (IF blank THEN jobCounter + 1 ELSE jobCounter)
       /\ genRuns' = Append(genRuns, run)
       /\ ev' = Ev("generate", [blank |-> blank, name |-> finalJobName],
                   IF jobType = "posting" THEN <<"POST", "generate-content">>
                   ELSE <<"GET", "fetch-tweets-from-sheets">>)
  /\ actionLoading' = <<"generate-content">>
  /\ apiError' = "null"
  /\ stamp' = stamp + 1
  /\ UNCHANGED <<hookVars, jobs, showScheduler, showContentApproval, generatedContent,
                 currentJobSettings, currentJobType, postedReplies, showPostedReplies,
                 jobOps, renames, regens, commits, creates, posted>>

\* what a finished run of createJobWithApproval did: the answer to its pool
\* fetch ("none" for a posting run) and to each generation call, in order
RunSummary(run, pool, outcomes) ==
  [type |-> run.type, name |-> run.name, pool |-> pool, outcomes |-> outcomes]

\* the tail of createJobWithApproval: the batch goes to review
InstallBatch(run, content) ==
  /\ generatedContent' = content
  /\ currentJobSettings' = [run.settings EXCEPT !.name = run.name]
  /\ currentJobType' = run.type
  /\ showScheduler' = FALSE
  /\ showContentApproval' = TRUE
  /\ actionLoading' = NULL
  /\ UNCHANGED apiError

\* AbortGeneration that leaves the marker set
AbortGeneration_KeepsMarker(msg) ==
  /\ apiError' = msg
  /\ UNCHANGED <<actionLoading, generatedContent, currentJobSettings, currentJobType,
                 showScheduler, showContentApproval>>

\* an early return or a catch of createJobWithApproval
AbortGeneration(msg) ==
  /\ apiError' = msg
  /\ actionLoading' = NULL
  /\ UNCHANGED <<generatedContent, currentJobSettings, currentJobType,
                 showScheduler, showContentApproval>>

GenUnchanged ==
  UNCHANGED <<hookVars, jobs, jobCounter, postedReplies, showPostedReplies,
              jobOps, renames, regens, commits, creates, stamp, posted>>

\* a /api/generate-content call of the posting loop comes back
GenerateContentDone ==
  /\ \E k \in 1..Len(genRuns) :
       LET run == genRuns[k]
           n == OrFive(run.settings.postsPerDay) IN
       /\ run.type = "posting"
       /\ \E outcome \in {"ok", "refused", "throw"}, v \in Drafts :
            LET outcomes == Append(run.outcomes, outcome) IN
            IF outcome = "throw"
            THEN /\ AbortGeneration("Failed to generate content")
                 /\ genRuns' = RemoveAt(genRuns, k)
                 /\ ev' = Ev("generation_done", RunSummary(run, "none", outcomes), NoCall)
            ELSE LET content == IF outcome = "ok"
                                THEN Append(run.content, PostItem(run.stamp, run.i, run.topic, v))
                                ELSE run.content
                 IN IF run.i + 1 < n
                    THEN /\ \E topic \in RandomTopics(run.settings.topics) :
                              genRuns' = [genRuns EXCEPT ![k].content = content,
                                                         ![k].i = run.i + 1,
                                                         ![k].outcomes = outcomes,
                                                         ![k].topic = topic]
                         /\ ev' = Ev("generate_next", NULL, <<"POST", "generate-content">>)
                         /\ UNCHANGED <<generatedContent, currentJobSettings, currentJobType,
                                        showScheduler, showContentApproval, actionLoading,
                                        apiError>>
                    ELSE /\ InstallBatch(run, AssignTimes(content,
                              generateScheduledTimes(n, run.settings.postingTimeStart,
                                                     run.settings.postingTimeEnd)))
                         /\ genRuns' = RemoveAt(genRuns, k)
                         /\ ev' = Ev("generation_done", RunSummary(run, "none", outcomes), NoCall)
  /\ GenUnchanged

\* PoolUnusable without its test of tweetsResult.success
PoolUnusable_LengthOnly(success, tweets) == Len(tweets) = 0

\* !tweetsResult.success || !tweetsResult.tweets || tweetsResult.tweets.length === 0
PoolUnusable(success, tweets) == ~success \/ Len(tweets) = 0

\* /api/fetch-tweets-from-sheets of a replying run comes back
FetchTweetsDone ==
  /\ \E k \in 1..Len(genRuns) :
       LET run == genRuns[k]
           numReplies == OrFive(run.settings.maxRepliesPerHour) IN
       /\ run.type = "replying" /\ run.phase = "fetch"
       /\ \E outcome \in {"ok", "refused", "throw"}, tweets \in Pools :
            LET pool == IF outcome = "ok" /\ tweets = <<>> THEN "empty" ELSE outcome
                tweetsToProcess == Slice(tweets, numReplies) IN
            /\ (outcome = "throw" => tweets = <<>>)
            /\ IF outcome = "throw"
               THEN /\ AbortGeneration("Failed to generate content")
                    /\ genRuns' = RemoveAt(genRuns, k)
                    /\ ev' = Ev("generation_done", RunSummary(run, pool, <<>>), NoCall)
               ELSE IF PoolUnusable(outcome = "ok", tweets)
               THEN /\ AbortGeneration("No tweets found in Google Sheets to reply to")
                    /\ genRuns' = RemoveAt(genRuns, k)
                    /\ ev' = Ev("generation_done", RunSummary(run, pool, <<>>), NoCall)
               ELSE IF Len(tweetsToProcess) = 0
               THEN \* the loop body never runs: content.length === 0
                    /\ AbortGeneration("Failed to generate any replies")
                    /\ genRuns' = RemoveAt(genRuns, k)
                    /\ ev' = Ev("generation_done", RunSummary(run, pool, <<>>), NoCall)
               ELSE /\ genRuns' = [genRuns EXCEPT ![k].tweets = tweetsToProcess,
                                                  ![k].pool = pool,
                                                  ![k].phase = "gen"]
                    /\ ev' = Ev("generate_next", NULL, <<"POST", "generate-reply">>)
                    /\ UNCHANGED <<generatedContent, currentJobSettings, currentJobType,
                                   showScheduler, showContentApproval, actionLoading, apiError>>
  /\ GenUnchanged

\* a /api/generate-reply call of the replying loop comes back (or throws
\* into the loop's own try/catch)
GenerateReplyDone ==
  /\ \E k \in 1..Len(genRuns) :
       LET run == genRuns[k] IN
       /\ run.type = "replying" /\ run.phase = "gen"
       /\ \E outcome \in {"ok", "refused", "throw"}, v \in Drafts :
            LET outcomes == Append(run.outcomes, outcome)
                content == IF outcome = "ok"
                           THEN Append(run.content,
                                       ReplyItem(run.stamp, run.i, run.tweets[run.i + 1], v))
                           ELSE run.content
            IN IF run.i + 1 < Len(run.tweets)
               THEN /\ genRuns' = [genRuns EXCEPT ![k].content = content,
                                                  ![k].outcomes = outcomes,
                                                  ![k].i = run.i + 1]
                    /\ ev' = Ev("generate_next", NULL, <<"POST", "generate-reply">>)
                    /\ UNCHANGED <<generatedContent, currentJobSettings, currentJobType,
                                   showScheduler, showContentApproval, actionLoading, apiError>>
               ELSE IF Len(content) = 0
               THEN /\ AbortGeneration("Failed to generate any replies")
                    /\ genRuns' = RemoveAt(genRuns, k)
                    /\ ev' = Ev("generation_done", RunSummary(run, run.pool, outcomes), NoCall)
               ELSE /\ InstallBatch(run, content)
                    /\ genRuns' = RemoveAt(genRuns, k)
                    /\ ev' = Ev("generation_done", RunSummary(run, run.pool, outcomes), NoCall)
  /\ GenUnchanged

\* handleCloseContentApproval that hides the modal and keeps the batch
handleCloseContentApproval_KeepsBatch ==
  /\ showContentApproval
  /\ showContentApproval' = FALSE
  /\ currentJobSettings' = NullSettings
  /\ ev' = Ev("close_review", NULL, NoCall)
  /\ UNCHANGED <<hookVars, jobs, jobCounter, actionLoading, showScheduler,
                 generatedContent, currentJobType, apiError, postedReplies,
                 showPostedReplies, procVars, stamp, posted>>

\* the approval modal's X / Cancel
handleCloseContentApproval ==
  /\ showContentApproval
  /\ showContentApproval' = FALSE
  /\ generatedContent' = <<>>
  /\ currentJobSettings' = NullSettings
  /\ ev' = Ev("close_review", NULL, NoCall)
  /\ UNCHANGED <<hookVars, jobs, jobCounter, actionLoading, showScheduler,
                 currentJobType, apiError, postedReplies, showPostedReplies,
                 procVars, stamp, posted>>

\* ------------------------------------------------------------- the review
\* prev.map(c => c.id === contentId ? f(c) : c)
MapItem(content, contentId, F(_)) ==
  [k \in 1..Len(content) |-> IF content[k].id = contentId THEN F(content[k]) ELSE content[k]]

\* ApproveItem that flips the flag of the item
ApproveItem_Toggle(item) ==
  [item EXCEPT !.approved = IF @ = "true" THEN "null" ELSE "true"]

\* { ...item, approved: true }
ApproveItem(item) == [item EXCEPT !.approved = "true"]

\* Approved that marks every item of the batch
Approved_All(prev, contentId) == [k \in 1..Len(prev) |-> ApproveItem(prev[k])]

\* prev.map(item => item.id === contentId ? { ...item, approved: true } : item)
Approved(prev, contentId) == MapItem(prev, contentId, ApproveItem)

\* approveContent, from the approve button of an item not yet approved
approveContent ==
  /\ showContentApproval
  /\ \E k \in 1..Len(generatedContent) :
       LET item == generatedContent[k] IN
       /\ item.approved # "true"
       /\ generatedContent' = Approved(generatedContent, item.id)
       /\ ev' = Ev("approve", item.id, NoCall)
  /\ UNCHANGED <<hookVars, jobs, jobCounter, actionLoading, showScheduler,
                 showContentApproval, currentJobSettings, currentJobType, apiError,
                 postedReplies, showPostedReplies, procVars, stamp, posted>>

ReviewUnchanged ==
  UNCHANGED <<hookVars, jobs, jobCounter, showScheduler, showContentApproval,
              currentJobSettings, currentJobType, postedReplies, showPostedReplies,
              jobOps, renames, genRuns, commits, creates, stamp, posted>>

\* the request regenerateContent sends for the item it found in its render
RegenRequest(contentItem) ==
  [id |-> contentItem.id, kind |-> "same", type |-> contentItem.type, phase |-> "gen",
   tweetId |-> contentItem.tweetId, topic |-> contentItem.topic,
   tweet |-> [id |-> contentItem.tweetId, text |-> contentItem.originalTweet,
              author |-> contentItem.tweetAuthor]]

\* regenerateContent up to its await
regenerateContent ==
  /\ showContentApproval
  /\ Len(regens) < MaxRegens
  /\ \E k \in 1..Len(generatedContent) :
       LET contentItem == generatedContent[k] IN
       /\ actionLoading # RegenKey(contentItem.id)
       /\ actionLoading' = RegenKey(contentItem.id)
       /\ regens' = Append(regens, RegenRequest(contentItem))
       /\ ev' = Ev("regenerate", contentItem.id,
                   IF contentItem.type = "post" THEN <<"POST", "generate-content">>
                   ELSE <<"POST", "generate-reply">>)
  /\ apiError' = "null"
  /\ UNCHANGED generatedContent
  /\ ReviewUnchanged

\* contentResult.content.content || contentResult.content, replyResult.reply
Response(r, v) ==
  IF r.type = "post" THEN Generated(<<r.topic>>, v) ELSE Generated(r.tweet.text, v)

\* Regenerated that spreads the item and replaces its content only
Regenerated_KeepsApproval(c, r, v) ==
  IF r.type = "post"
  THEN [c EXCEPT !.content = Response(r, v), !.engagement_score = v]
  ELSE [c EXCEPT !.content = Response(r, v)]

\* the item after a successful regeneration for the same topic / tweet
Regenerated(c, r, v) ==
  IF r.type = "post"
  THEN [c EXCEPT !.content = Response(r, v), !.approved = "null",
                 !.engagement_score = v]
  ELSE [c EXCEPT !.content = Response(r, v), !.approved = "null"]

\* the item after a successful regeneration for another topic / tweet
RegeneratedDifferent(c, r, v) ==
  IF r.type = "post"
  THEN [c EXCEPT !.content = Response(r, v), !.topic = r.topic,
                 !.approved = "null", !.engagement_score = v]
  ELSE [c EXCEPT !.content = Response(r, v), !.originalTweet = r.tweet.text,
                 !.tweetId = r.tweet.id, !.tweetAuthor = r.tweet.author,
                 !.approved = "null"]

\* the items of the batch a prev.map(c => c.id === contentId ? ... : c) touches
ItemsWithId(content, contentId) ==
  LET Same(c) == c.id = contentId IN SelectSeq(content, Same)

\* the generation call of a regeneration comes back; finally clears the marker
RegenerateDone ==
  /\ \E k \in 1..Len(regens) :
       LET r == regens[k] IN
       /\ r.phase = "gen"
       /\ \E outcome \in {"ok", "refused", "throw"}, v \in Versions :
            LET New(c) == IF r.kind = "same" THEN Regenerated(c, r, v)
                          ELSE RegeneratedDifferent(c, r, v) IN
            /\ (outcome # "ok" => v = 1)
            /\ generatedContent' = (IF outcome = "ok"
                                    THEN MapItem(generatedContent, r.id, New)
                                    ELSE generatedContent)
            /\ apiError' = (IF outcome = "throw" THEN "Failed to regenerate content"
                            ELSE apiError)
            /\ ev' = Ev(IF outcome = "ok" THEN "regenerated"
                        ELSE IF outcome = "refused" THEN "regenerate_refused"
                        ELSE "regenerate_failed",
                        [id |-> r.id, stage |-> "gen", kind |-> r.kind, type |-> r.type,
                         content |-> Response(r, v), topic |-> r.topic,
                         tweetId |-> r.tweet.id,
                         before |-> ItemsWithId(generatedContent, r.id)], NoCall)
       /\ regens' = RemoveAt(regens, k)
  /\ actionLoading' = NULL
  /\ ReviewUnchanged

DefaultTopics == <<"Pokemon TCG", "Card Pulls", "Deck Building", "Tournaments">>

\* (currentJobSettings as any)?.topics || [...defaults]
AvailableTopics == IF currentJobSettings.null THEN DefaultTopics ELSE currentJobSettings.topics

\* DifferentTopics without its filter
DifferentTopics_All(contentItem) == AvailableTopics

\* availableTopics.filter(topic => topic !== contentItem.topic)
DifferentTopics(contentItem) ==
  LET Other(t) == t # contentItem.topic IN SelectSeq(AvailableTopics, Other)

\* tweets.filter(tweet => tweet.id !== contentItem.tweetId)
DifferentTweets(tweets, tweetId) ==
  LET Other(t) == t.id # tweetId IN SelectSeq(tweets, Other)

\* regenerateForDifferentTweet up to its first await
regenerateForDifferentTweet ==
  /\ showContentApproval
  /\ Len(regens) < MaxRegens
  /\ \E k \in 1..Len(generatedContent) :
       LET contentItem == generatedContent[k] IN
       /\ actionLoading # RegenDiffKey(contentItem.id)
       /\ IF contentItem.type = "reply"
          THEN /\ regens' = Append(regens, [RegenRequest(contentItem) EXCEPT
                                              !.kind = "different", !.phase = "fetch"])
               /\ actionLoading' = RegenDiffKey(contentItem.id)
               /\ ev' = Ev("regenerate_different", contentItem.id,
                           <<"GET", "fetch-tweets-from-sheets">>)
          ELSE IF Len(DifferentTopics(contentItem)) = 0
          THEN \* await regenerateContent(contentId)
               /\ regens' = Append(regens, RegenRequest(contentItem))
               /\ actionLoading' = RegenKey(contentItem.id)
               /\ ev' = Ev("regenerate_fallback", contentItem.id, <<"POST", "generate-content">>)
          ELSE /\ \E j \in 1..Len(DifferentTopics(contentItem)) :
                    regens' = Append(regens, [RegenRequest(contentItem) EXCEPT
                                                !.kind = "different",
                                                !.topic = DifferentTopics(contentItem)[j]])
               /\ actionLoading' = RegenDiffKey(contentItem.id)
               /\ ev' = Ev("regenerate_different", contentItem.id,
                           <<"POST", "generate-content">>)
  /\ apiError' = "null"
  /\ UNCHANGED generatedContent
  /\ ReviewUnchanged

\* the pool fetch of regenerateForDifferentTweet comes back
RegenerateFetchDone ==
  /\ \E k \in 1..Len(regens) :
       LET r == regens[k] IN
       /\ r.phase = "fetch"
       /\ \E outcome \in {"ok", "refused", "throw"}, tweets \in Pools :
            LET differentTweets == DifferentTweets(tweets, r.tweetId) IN
            /\ (outcome # "ok" => tweets = <<>>)
            /\ IF outcome = "ok" /\ Len(tweets) > 0 /\ Len(differentTweets) > 0
               THEN /\ \E j \in 1..Len(differentTweets) :
                         regens' = [regens EXCEPT ![k].phase = "gen",
                                                  ![k].tweet = differentTweets[j]]
                    /\ ev' = Ev("regenerate_picked",
                                [id |-> r.id, stage |-> "fetch", pool |-> tweets, tweetId |-> r.tweetId,
                                 picked |-> regens'[k].tweet.id], <<"POST", "generate-reply">>)
                    /\ UNCHANGED <<actionLoading, apiError>>
               ELSE /\ regens' = RemoveAt(regens, k)
                    /\ actionLoading' = NULL
                    /\ apiError' = (IF outcome = "throw" THEN "Failed to regenerate content"
                                    ELSE IF outcome = "ok" /\ Len(tweets) > 0
                                    THEN "No other tweets available to generate a different reply."
                                    ELSE apiError)
                    /\ ev' = Ev(IF outcome = "throw" THEN "regenerate_failed"
                                ELSE IF outcome = "ok" /\ Len(tweets) > 0 THEN "no_other_tweet"
                                ELSE "regenerate_refused",
                                [id |-> r.id, stage |-> "fetch", pool |-> tweets, tweetId |-> r.tweetId,
                                 picked |-> "undefined"], NoCall)
  /\ UNCHANGED generatedContent
  /\ ReviewUnchanged

\* ------------------------------------------------------------- the commit
\* ApprovedItems without its filter
ApprovedItems_All(content) == content

\* generatedContent.filter(item => item.approved === true)
ApprovedItems(content) == LET Ok(c) == c.approved = "true" IN SelectSeq(content, Ok)

\* the commit button: disabled={loading === 'schedule' || approvedCount === 0}
ScheduleDisabled ==
  actionLoading = <<"schedule">> \/ Len(ApprovedItems(generatedContent)) = 0

\* the PostedReply record pushed for a successful post of `reply`
PostedReply(reply) ==
  [content |-> reply.content, originalTweet |-> reply.originalTweet,
   tweetAuthor |-> reply.tweetAuthor,
   originalTweetUrl |-> <<"twitter.com", reply.tweetAuthor, "status", reply.tweetId>>]

CommitUnchanged ==
  UNCHANGED <<jobs, jobCounter, showScheduler, currentJobSettings, currentJobType,
              jobOps, renames, genRuns, regens, creates, stamp>>

\* the body of the create-posting-job call: type, name || 'Untitled Job',
\* settings: {...currentJobSettings, approvedContent, autoPost: true}
CreatePostingJobBody(approvedItems) ==
  [type |-> currentJobType,
   name |-> IF currentJobSettings.null THEN <<"Untitled Job">>
            ELSE IF currentJobSettings.name = <<>> THEN <<"Untitled Job">>
            ELSE currentJobSettings.name,
   settings |-> currentJobSettings,
   approvedContent |-> approvedItems,
   autoPost |-> TRUE]

\* scheduleBody whose check of approvedItems.length is skipped for a posting batch
scheduleBody_NoGuard ==
  LET approvedItems == ApprovedItems(generatedContent) IN
  /\ IF Len(approvedItems) = 0 /\ currentJobType = "replying"
     THEN /\ apiError' = "Please approve at least one item before posting."
          /\ actionLoading' = NULL
          /\ ev' = Ev("commit", NULL, NoCall)
          /\ UNCHANGED <<commits, posted>>
     ELSE /\ Len(commits) < MaxCommits
          /\ apiError' = "null"
          /\ actionLoading' = <<"schedule">>
          /\ commits' = Append(commits,
                [type |-> currentJobType, approvedItems |-> approvedItems,
                 attempts |-> IF currentJobType = "replying"
                              THEN <<approvedItems[1].id>> ELSE <<>>,
                 results |-> <<>>, postedRepliesData |-> <<>>])
          /\ IF currentJobType = "replying"
             THEN /\ ev' = Ev("commit", approvedItems[1].id, <<"POST", "post-reply-with-tracking">>)
                  /\ posted' = posted \cup {approvedItems[1].id}
             ELSE /\ ev' = Ev("commit", CreatePostingJobBody(approvedItems),
                              <<"POST", "create-posting-job">>)
                  /\ UNCHANGED posted
  /\ UNCHANGED <<hookVars, generatedContent, showContentApproval,
                 postedReplies, showPostedReplies>>
  /\ CommitUnchanged

\* scheduleApprovedContent up to its first await (or to its early return)
scheduleBody ==
  LET approvedItems == ApprovedItems(generatedContent) IN
  /\ IF Len(approvedItems) = 0
     THEN /\ apiError' = "Please approve at least one item before posting."
          /\ actionLoading' = NULL
          /\ ev' = Ev("commit", NULL, NoCall)
          /\ UNCHANGED <<commits, posted>>
     ELSE /\ Len(commits) < MaxCommits
          /\ apiError' = "null"
          /\ actionLoading' = <<"schedule">>
          /\ commits' = Append(commits,
                [type |-> currentJobType, approvedItems |-> approvedItems,
                 attempts |-> IF currentJobType = "replying"
                              THEN <<approvedItems[1].id>> ELSE <<>>,
                 results |-> <<>>, postedRepliesData |-> <<>>])
          /\ IF currentJobType = "replying"
             THEN /\ ev' = Ev("commit", approvedItems[1].id, <<"POST", "post-reply-with-tracking">>)
                  /\ posted' = posted \cup {approvedItems[1].id}
             ELSE /\ ev' = Ev("commit", CreatePostingJobBody(approvedItems),
                              <<"POST", "create-posting-job">>)
                  /\ UNCHANGED posted
  /\ UNCHANGED <<hookVars, generatedContent, showContentApproval,
                 postedReplies, showPostedReplies>>
  /\ CommitUnchanged

\* a click on the enabled commit button
scheduleApprovedContent ==
  /\ showContentApproval
  /\ ~ScheduleDisabled
  /\ scheduleBody

\* the handler called while nothing is approved (the button is disabled then;
\* the handler carries its own check)
scheduleNothingApproved ==
  /\ showContentApproval
  /\ Len(ApprovedItems(generatedContent)) = 0
  /\ scheduleBody

\* LoopContinues for a loop that stops at the first failed call
LoopContinues_AbortOnFailure(run, outcome) ==
  outcome = "ok" /\ Len(run.results) + 1 < Len(run.approvedItems)

\* does the reply loop go on after the k-th call has failed or succeeded
LoopContinues(run, outcome) == Len(run.results) + 1 < Len(run.approvedItems)

\* a /api/post-reply-with-tracking call comes back (or throws into the loop's
\* try/catch); after the last one the rest of the handler runs
PostReplyDone ==
  /\ \E k \in 1..Len(commits) :
       LET run == commits[k]
           reply == run.approvedItems[Len(run.results) + 1] IN
       /\ run.type = "replying"
       /\ \E outcome \in {"ok", "refused", "throw"} :
            LET results == Append(run.results, outcome = "ok")
                postedRepliesData == IF outcome = "ok"
                                     THEN Append(run.postedRepliesData, PostedReply(reply))
                                     ELSE run.postedRepliesData
                successCount == Len(postedRepliesData)
            IN IF LoopContinues(run, outcome)
               THEN /\ commits' = [commits EXCEPT ![k].results = results,
                                                  ![k].postedRepliesData = postedRepliesData,
                                                  ![k].attempts =
                                                    Append(@, run.approvedItems[Len(results) + 1].id)]
                    /\ posted' = posted \cup {run.approvedItems[Len(results) + 1].id}
                    /\ ev' = Ev("commit_next", run.approvedItems[Len(results) + 1].id,
                                <<"POST", "post-reply-with-tracking">>)
                    /\ UNCHANGED <<postedReplies, showPostedReplies, apiError,
                                   showContentApproval, generatedContent, actionLoading>>
               ELSE /\ commits' = RemoveAt(commits, k)
                    /\ IF successCount > 0
                       THEN /\ postedReplies' = postedRepliesData
                            /\ showPostedReplies' = TRUE
                            /\ UNCHANGED apiError
                       ELSE /\ apiError' = "No replies were successfully posted."
                            /\ UNCHANGED <<postedReplies, showPostedReplies>>
                    /\ showContentApproval' = FALSE
                    /\ generatedContent' = <<>>
                    /\ actionLoading' = NULL
                    /\ ev' = Ev("commit_done",
                                [approvedItems |-> run.approvedItems,
                                 attempts |-> run.attempts, results |-> results], NoCall)
                    /\ UNCHANGED posted
  /\ UNCHANGED hookVars
  /\ CommitUnchanged

\* /api/bot-job/create-posting-job of a posting commit comes back
CreatePostingJobDone ==
  /\ \E k \in 1..Len(commits) :
       /\ commits[k].type # "replying"
       /\ commits' = RemoveAt(commits, k)
       /\ \E outcome \in {"ok", "refused", "throw"} :
            /\ IF outcome = "ok"
               THEN /\ showContentApproval' = FALSE
                    /\ generatedContent' = <<>>
                    /\ refetch
                    /\ UNCHANGED apiError
               ELSE /\ apiError' = (IF outcome = "throw" THEN "Failed to process content"
                                    ELSE apiError)
                    /\ UNCHANGED <<hookVars, showContentApproval, generatedContent>>
            /\ ev' = Ev(IF outcome = "ok" THEN "scheduled"
                        ELSE IF outcome = "refused" THEN "schedule_refused"
                        ELSE "schedule_failed", NULL,
                        IF outcome = "ok" THEN <<"GET", "bot-status">> ELSE NoCall)
  /\ actionLoading' = NULL
  /\ UNCHANGED <<postedReplies, showPostedReplies, posted>>
  /\ CommitUnchanged

\* PostedRepliesModal onClose
ClosePostedReplies ==
  /\ showPostedReplies
  /\ showPostedReplies' = FALSE
  /\ postedReplies' = <<>>
  /\ ev' = Ev("close_posted", NULL, NoCall)
  /\ UNCHANGED <<hookVars, jobs, jobCounter, actionLoading, showScheduler,
                 showContentApproval, generatedContent, currentJobSettings,
                 currentJobType, apiError, procVars, stamp, posted>>

\* --------------------------------------------- job creation without review
\* createNewJob up to its await
createNewJob ==
  /\ showScheduler
  /\ ~SchedulerLoading
  /\ creates = <<>>
  /\ \E jobName \in JobNameInputs, type \in {"posting", "replying"} :
       LET blank == Trim(jobName) = <<>>
           finalJobName == IF blank THEN AutoName(jobCounter) ELSE Trim(jobName) IN
       /\ (blank => jobCounter < MaxCounter)
       /\ jobCounter' = (IF blank THEN jobCounter + 1 ELSE jobCounter)
       /\ creates' = <<[type |-> type, name |-> finalJobName]>>
       /\ ev' = Ev("create", [blank |-> blank, name |-> finalJobName],
                   <<"POST", IF type = "posting" THEN "create-posting-job"
                             ELSE "create-reply-job">>)
  /\ actionLoading' = <<"create">>
  /\ apiError' = "null"
  /\ UNCHANGED <<hookVars, jobs, showScheduler, showContentApproval, generatedContent,
                 currentJobSettings, currentJobType, postedReplies, showPostedReplies,
                 jobOps, renames, genRuns, regens, commits, stamp, posted>>

\* the create call comes back: success, result.success false (thrown and
\* caught in the handler), or a throw of apiCall
CreateJobDone ==
  /\ creates # <<>>
  /\ \E outcome \in {"ok", "refused", "throw"} :
       /\ IF outcome = "ok"
          THEN /\ refetch
               /\ showScheduler' = FALSE
               /\ UNCHANGED apiError
          ELSE /\ apiError' = "Failed to create job"
               /\ UNCHANGED <<hookVars, showScheduler>>
       /\ ev' = Ev(IF outcome = "ok" THEN "created" ELSE "create_failed", NULL,
                   IF outcome = "ok" THEN <<"GET", "bot-status">> ELSE NoCall)
  /\ creates' = <<>>
  /\ actionLoading' = NULL
  /\ UNCHANGED <<jobs, jobCounter, showContentApproval, generatedContent,
                 currentJobSettings, currentJobType, postedReplies, showPostedReplies,
                 jobOps, renames, genRuns, regens, commits, stamp, posted>>

\* -------------------------------------------------------- specifications
Next ==
  \/ AutoRefresh \/ ClearErrorAndRetry \/ FetchOk \/ FetchFail
  \/ handleJobAction \/ JobActionOk \/ JobActionFail \/ JobActionTimer
  \/ handleJobRename \/ RenameDone \/ RenameFail
  \/ OpenScheduler \/ CloseScheduler
  \/ createJobWithApproval \/ GenerateContentDone \/ FetchTweetsDone \/ GenerateReplyDone
  \/ handleCloseContentApproval \/ approveContent
  \/ regenerateContent \/ regenerateForDifferentTweet
  \/ RegenerateFetchDone \/ RegenerateDone
  \/ scheduleApprovedContent \/ scheduleNothingApproved
  \/ PostReplyDone \/ CreatePostingJobDone \/ ClosePostedReplies
  \/ createNewJob \/ CreateJobDone

\* the whole component
Spec == Init /\ [][Next]_vars

\* the scheduler and the generation runs alone
NextGen ==
  \/ OpenScheduler \/ CloseScheduler
  \/ createJobWithApproval \/ GenerateContentDone \/ FetchTweetsDone \/ GenerateReplyDone
  \/ handleCloseContentApproval

SpecGen == Init /\ [][NextGen]_vars

\* generation, approval and commit
NextCommit ==
  \/ OpenScheduler \/ CloseScheduler
  \/ createJobWithApproval \/ GenerateContentDone \/ FetchTweetsDone \/ GenerateReplyDone
  \/ handleCloseContentApproval \/ approveContent
  \/ scheduleApprovedContent \/ scheduleNothingApproved
  \/ PostReplyDone \/ CreatePostingJobDone \/ ClosePostedReplies

SpecCommit == Init /\ [][NextCommit]_vars

\* generation, approval, same-source regeneration and commit, every handler
\* reached through its button
NextDup ==
  \/ OpenScheduler \/ CloseScheduler
  \/ createJobWithApproval \/ GenerateContentDone \/ FetchTweetsDone \/ GenerateReplyDone
  \/ handleCloseContentApproval \/ approveContent
  \/ scheduleApprovedContent
  \/ PostReplyDone \/ CreatePostingJobDone \/ ClosePostedReplies
  \/ regenerateContent \/ RegenerateDone

SpecDup == Init /\ [][NextDup]_vars

\* generation, approval and the two regenerations
NextRegen ==
  \/ OpenScheduler \/ CloseScheduler
  \/ createJobWithApproval \/ GenerateContentDone \/ FetchTweetsDone \/ GenerateReplyDone
  \/ handleCloseContentApproval \/ approveContent
  \/ regenerateContent \/ regenerateForDifferentTweet
  \/ RegenerateFetchDone \/ RegenerateDone

SpecRegen == Init /\ [][NextRegen]_vars

\* the registry, its job commands, and the generation runs
NextBlock ==
  \/ FetchOk
  \/ handleJobAction \/ JobActionOk \/ JobActionFail \/ JobActionTimer
  \/ OpenScheduler \/ CloseScheduler
  \/ createJobWithApproval \/ GenerateContentDone \/ FetchTweetsDone \/ GenerateReplyDone
  \/ handleCloseContentApproval

SpecBlock == Init /\ [][NextBlock]_vars

\* snapshots, renames and the two ways of creating a job
NextNaming ==
  \/ FetchOk
  \/ handleJobRename \/ RenameDone \/ RenameFail
  \/ OpenScheduler \/ CloseScheduler
  \/ createJobWithApproval \/ GenerateContentDone \/ FetchTweetsDone \/ GenerateReplyDone
  \/ handleCloseContentApproval
  \/ createNewJob \/ CreateJobDone

SpecNaming == Init /\ [][NextNaming]_vars

\* the polling hook and the job commands
NextJobs ==
  \/ AutoRefresh \/ FetchOk \/ FetchFail
  \/ handleJobAction \/ JobActionOk \/ JobActionFail \/ JobActionTimer

SpecJobs == Init /\ [][NextJobs]_vars

\* the polling hook and the renames
NextRegistry ==
  \/ AutoRefresh \/ FetchOk \/ FetchFail
  \/ handleJobRename \/ RenameDone \/ RenameFail

SpecRegistry == Init /\ [][NextRegistry]_vars

\* the polling hook through its life: mounts, endpoint changes, polls,
\* manual refetches and unmounts
NextHook ==
  \/ AutoRefresh \/ ClearErrorAndRetry \/ FetchOk \/ FetchFail
  \/ Unmount \/ Mount \/ ChangeEndpoint

SpecHook == Init /\ [][NextHook]_vars

\* the mount fetch and a refetch issued before it resolved, both in flight
InitRace ==
  /\ data = NoData /\ loading = TRUE /\ error = "null"
  /\ fetches = <<Request("bot-status"), Request("bot-status")>>
  /\ mounted = TRUE /\ endpoint = "bot-status" /\ options = DefaultOptions
  /\ intervalRef = 1 /\ timers = {1} /\ effects = 1
  /\ jobs = <<>> /\ jobCounter = 1 /\ actionLoading = NULL
  /\ showScheduler = FALSE /\ showContentApproval = FALSE
  /\ generatedContent = <<>> /\ currentJobSettings = NullSettings
  /\ currentJobType = "posting" /\ apiError = "null"
  /\ postedReplies = <<>> /\ showPostedReplies = FALSE
  /\ jobOps = <<>> /\ renames = <<>> /\ genRuns = <<>> /\ regens = <<>>
  /\ commits = <<>> /\ creates = <<>>
  /\ stamp = 0 /\ posted = {} /\ ev = Ev("retry", NULL, <<"GET", "bot-status">>)

SpecRace == InitRace /\ [][NextHook]_vars

\* runs of createJobWithApproval for one item whose first call is outstanding:
\* a reply run at its pool fetch, a posting run at its generation call, with
\* one topic and with two
SubmittedRuns ==
  { [type |-> "replying",
     settings |-> [postsPerDay |-> 0, topics |-> <<>>, postingTimeStart |-> T0900,
                   postingTimeEnd |-> T1700, maxRepliesPerHour |-> 1,
                   name |-> <<>>, null |-> FALSE],
     name |-> <<"x">>, stamp |-> 1, i |-> 0, content |-> <<>>, tweets |-> <<>>,
     outcomes |-> <<>>, pool |-> "none", phase |-> "fetch", topic |-> "undefined"] }
  \cup
  { [type |-> "posting",
     settings |-> [postsPerDay |-> 1, topics |-> ts,
                   postingTimeStart |-> T0900, postingTimeEnd |-> T1700,
                   maxRepliesPerHour |-> 0, name |-> <<>>, null |-> FALSE],
     name |-> <<"x">>, stamp |-> 1, i |-> 0, content |-> <<>>, tweets |-> <<>>,
     outcomes |-> <<>>, pool |-> "none", phase |-> "gen", topic |-> "A"] :
       ts \in {<<"A">>, <<"A", "B">>} }

\* the job list of the snapshot the component holds
LoadedJobs == <<Job(J1, AutoName(1), "posting", "running")>>

\* a snapshot with one job has arrived, the scheduler has been opened and
\* submitted with a name, and the run waits for its first answer
InitSpin ==
  /\ data = StatusBody(TRUE, LoadedJobs) /\ loading = FALSE /\ error = "null"
  /\ fetches = <<>>
  /\ mounted = TRUE /\ endpoint = "bot-status" /\ options = DefaultOptions
  /\ intervalRef = 1 /\ timers = {1} /\ effects = 1
  /\ jobs = StatusEffectJobs(data, <<>>)
  /\ jobCounter = StatusEffectCounter(data, 1)
  /\ actionLoading = <<"generate-content">>
  /\ showScheduler = TRUE /\ showContentApproval = FALSE
  /\ generatedContent = <<>> /\ currentJobSettings = NullSettings
  /\ currentJobType = "posting" /\ apiError = "null"
  /\ postedReplies = <<>> /\ showPostedReplies = FALSE
  /\ jobOps = <<>> /\ renames = <<>> /\ regens = <<>>
  /\ commits = <<>> /\ creates = <<>>
  /\ \E run \in SubmittedRuns : genRuns = <<run>>
  /\ stamp = 1 /\ posted = {}
  /\ ev = Ev("generate", [blank |-> FALSE, name |-> <<"x">>],
             IF genRuns[1].type = "posting" THEN <<"POST", "generate-content">>
             ELSE <<"GET", "fetch-tweets-from-sheets">>)

\* every handler that sets the loading marker, from the answer to the
\* generation run on: the review, the commit, the job created without review
\* once a run has failed, the job commands once the modals are gone
NextSpin ==
  \/ GenerateContentDone \/ FetchTweetsDone \/ GenerateReplyDone
  \/ approveContent
  \/ regenerateContent \/ regenerateForDifferentTweet
  \/ RegenerateFetchDone \/ RegenerateDone
  \/ scheduleApprovedContent \/ scheduleNothingApproved
  \/ PostReplyDone \/ CreatePostingJobDone \/ ClosePostedReplies
  \/ createNewJob \/ CreateJobDone
  \/ handleJobAction \/ JobActionOk \/ JobActionFail \/ JobActionTimer

SpecSpin == InitSpin /\ [][NextSpin]_vars

\* the posts-per-day slider goes from 1 to 20
MaxPostsPerDay == 20

\* values of the two <input type="time"> fields, end after start
T0915 == <<"0", "9", ":", "1", "5">>
T1000 == <<"1", "0", ":", "0", "0">>
T2300 == <<"2", "3", ":", "0", "0">>
T2359 == <<"2", "3", ":", "5", "9">>
T0000 == <<"0", "0", ":", "0", "0">>
T0007 == <<"0", "0", ":", "0", "7">>

WindowInputs == { <<T0900, T1700>>, <<T0915, T1000>>, <<T2300, T2359>>, <<T0000, T0007>> }

\* a posting run of createJobWithApproval whose calls so far all succeeded
\* and whose last /api/generate-content call is outstanding
LastCallOutstanding(count, window) ==
  [type |-> "posting",
   settings |-> [postsPerDay |-> count, topics |-> <<>>,
                 postingTimeStart |-> window[1], postingTimeEnd |-> window[2],
                 maxRepliesPerHour |-> 0, name |-> <<>>, null |-> FALSE],
   name |-> <<"x">>, stamp |-> 1, i |-> count - 1,
   content |-> [k \in 1..(count - 1) |-> PostItem(1, k - 1, "Pokemon TCG", 0)],
   tweets |-> <<>>, outcomes |-> [k \in 1..(count - 1) |-> "ok"], pool |-> "none",
   phase |-> "gen", topic |-> "Pokemon TCG"]

\* the scheduler has been submitted for a posting job of any slider value and
\* window, and the run has reached its last generation call
InitTimes ==
  /\ MountedHook
  /\ jobs = <<>> /\ jobCounter = 1 /\ actionLoading = <<"generate-content">>
  /\ showScheduler = TRUE /\ showContentApproval = FALSE
  /\ generatedContent = <<>> /\ currentJobSettings = NullSettings
  /\ currentJobType = "posting" /\ apiError = "null"
  /\ postedReplies = <<>> /\ showPostedReplies = FALSE
  /\ jobOps = <<>> /\ renames = <<>> /\ regens = <<>>
  /\ commits = <<>> /\ creates = <<>>
  /\ \E count \in 1..MaxPostsPerDay, window \in WindowInputs :
       genRuns = <<LastCallOutstanding(count, window)>>
  /\ stamp = 1 /\ posted = {}
  /\ ev = Ev(IF genRuns[1].i = 0 THEN "generate" ELSE "generate_next",
             IF genRuns[1].i = 0 THEN [blank |-> FALSE, name |-> <<"x">>] ELSE NULL,
             <<"POST", "generate-content">>)

\* the end of a posting run and the review that follows
NextTimes == GenerateContentDone \/ handleCloseContentApproval

SpecTimes == InitTimes /\ [][NextTimes]_vars

\* ================================================================ claims
RECURSIVE CountOf(_, _)
\* how many entries of s lie in the set S
CountOf(s, S) ==
  IF s = <<>> THEN 0 ELSE (IF Head(s) \in S THEN 1 ELSE 0) + CountOf(Tail(s), S)

Ids(items) == [k \in 1..Len(items) |-> items[k].id]

PostCall == <<"POST", "post-reply-with-tracking">>

\* C1: the commit handler invoked while no item of the batch is approved
\* issues no backend call, sets the validation message and leaves the batch,
\* the review modal and the set of running commits as they were.
C1_CommitGuard ==
  [][(ev'.op = "commit" /\ Len(ApprovedItems(generatedContent)) = 0)
       => /\ ev'.call = NoCall
          /\ apiError' = "Please approve at least one item before posting."
          /\ generatedContent' = generatedContent
          /\ showContentApproval' = showContentApproval
          /\ commits' = commits
          /\ posted' = posted
          /\ fetches' = fetches]_vars

\* a reply batch under review, nothing approved, and the handler has just refused
C1_Witness ==
  /\ ev.op = "commit" /\ ev.call = NoCall
  /\ showContentApproval /\ currentJobType = "replying"
  /\ generatedContent # <<>>
  /\ Len(ApprovedItems(generatedContent)) = 0
  /\ apiError = "Please approve at least one item before posting."

\* C3 (as the spec states it): a reply commit whose post calls all failed
\* leaves the review open with the batch and its approvals, and sets an error.
C3_ZeroSuccessStaysInReview ==
  [][(ev'.op = "commit_done" /\ CountOf(ev'.arg.results, {TRUE}) = 0)
       => /\ showContentApproval'
          /\ generatedContent' = generatedContent
          /\ apiError' # "null"]_vars

\* the records of the approved replies whose call succeeded, in batch order
SuccessRecords(approvedItems, results) ==
  LET Ok(k) == results[k]
      idx == SelectSeq([k \in 1..Len(approvedItems) |-> k], Ok)
  IN [j \in 1..Len(idx) |-> PostedReply(approvedItems[idx[j]])]

\* C4: a finished reply commit has sent one post call per approved reply, in
\* batch order, whatever failed; with some success, postedReplies holds
\* exactly the records of the successful calls in that order.
C4_PartialReplyCommit ==
  ev.op = "commit_done"
    => /\ ev.arg.attempts = Ids(ev.arg.approvedItems)
       /\ Len(ev.arg.results) = Len(ev.arg.approvedItems)
       /\ (CountOf(ev.arg.results, {TRUE}) > 0
             => /\ postedReplies = SuccessRecords(ev.arg.approvedItems, ev.arg.results)
                /\ Len(postedReplies) = CountOf(ev.arg.results, {TRUE})
                /\ showPostedReplies)

\* a commit of two approved replies in which the first call failed and the
\* second succeeded
C4_Witness ==
  /\ ev.op = "commit_done"
  /\ ev.arg.results = <<FALSE, TRUE>>
  /\ Len(postedReplies) = 1

Failed == {"refused", "throw"}

\* C5 (as the spec states it): a posting run in which one generation call
\* failed and at least one succeeded still goes to review, with one item per
\* successful call.
C5_SingleFailureTolerated ==
  (/\ ev.op = "generation_done" /\ ev.arg.type = "posting"
   /\ CountOf(ev.arg.outcomes, Failed) = 1
   /\ CountOf(ev.arg.outcomes, {"ok"}) >= 1)
    => /\ showContentApproval
       /\ Len(generatedContent) = CountOf(ev.arg.outcomes, {"ok"})

\* C6 (as the spec states it): a run without a successful item ends with an
\* error and no review; a run with one goes to review with one item per
\* successful call; the review is never open on an empty batch.
C6_OnlyTotalFailureIsHard ==
  /\ showContentApproval => generatedContent # <<>>
  /\ ev.op = "generation_done"
       => IF CountOf(ev.arg.outcomes, {"ok"}) = 0
          THEN apiError # "null" /\ ~showContentApproval
          ELSE showContentApproval
               /\ Len(generatedContent) = CountOf(ev.arg.outcomes, {"ok"})

\* C7: when the pool fetch of a replying run comes back unsuccessful or
\* empty, the run ends there: no generation call was or is issued, an error is
\* set, and the batch and the review modal are as before.
C7_EmptyPool ==
  [][(ev'.op = "generation_done" /\ ev'.arg.pool \in {"refused", "empty"})
       => /\ ev'.arg.outcomes = <<>>
          /\ ev'.call = NoCall
          /\ Len(genRuns') = Len(genRuns) - 1
          /\ apiError' # "null"
          /\ generatedContent' = generatedContent
          /\ showContentApproval' = showContentApproval
          /\ actionLoading' = NULL]_vars

\* a replying run that has just ended on an empty pool
C7_Witness ==
  /\ ev.op = "generation_done" /\ ev.arg.type = "replying" /\ ev.arg.pool = "empty"
  /\ genRuns = <<>> /\ ~showContentApproval /\ generatedContent = <<>>
  /\ apiError = "No tweets found in Google Sheets to reply to"

\* C2 (as the spec states it): no two commits in flight hold the same item,
\* no two regenerations in flight are for the same item, and no item is sent
\* to the post endpoint a second time.
C2_NoDuplicateInFlight ==
  [][/\ \A a, b \in 1..Len(commits') :
          a # b => \A x \in 1..Len(commits'[a].approvedItems),
                      y \in 1..Len(commits'[b].approvedItems) :
                     commits'[a].approvedItems[x].id # commits'[b].approvedItems[y].id
     /\ \A a, b \in 1..Len(regens') : a # b => regens'[a].id # regens'[b].id
     /\ (ev'.call = PostCall => ev'.arg \notin posted)]_vars

\* C8 (as the spec states it): a job created without a name is named after
\* the highest "Job #<number>" among the jobs currently listed, plus one.
C8_AutoNaming ==
  [][(ev'.op \in {"generate", "create"} /\ ev'.arg.blank)
       => ev'.arg.name = AutoName(MaxJobNumber(jobs, 0) + 1)]_vars

\* the submit button of the scheduler can be pressed
SubmitEnabled == showScheduler /\ ~SchedulerLoading

\* C9 (as the spec states it): while a generation run is in progress the
\* scheduler's submit is blocked.
C9_SubmitBlockedWhileGenerating == genRuns # <<>> => ~SubmitEnabled

\* the spinner of a batch item: either of its regenerate buttons is loading
ItemLoading(item) ==
  actionLoading = RegenKey(item.id) \/ actionLoading = RegenDiffKey(item.id)

\* C10 (as the spec states it): a job row shows its loading state exactly
\* while a command on that job is outstanding, and a batch item exactly while
\* a regeneration of that item is outstanding.
C10_LoadingScopedPerEntity ==
  /\ \A k \in 1..Len(jobs) :
       IsLoading(jobs[k]) <=> \E o \in 1..Len(jobOps) : jobOps[o].jobId = jobs[k].id
  /\ \A k \in 1..Len(generatedContent) :
       ItemLoading(generatedContent[k])
         <=> \E r \in 1..Len(regens) : regens[r].id = generatedContent[k].id

\* C11 (as the spec states it): when the create-posting-job call of a posting
\* commit fails (throws, or answers without success), the review stays as it
\* was, an error is set, and every item keeps its content and approved flag.
C11_PostingCommitFailure ==
  [][(ev'.op \in {"schedule_refused", "schedule_failed"})
       => /\ showContentApproval' = showContentApproval
          /\ generatedContent' = generatedContent
          /\ apiError' # "null"]_vars

CreatePostingJobCall == <<"POST", "create-posting-job">>

\* the items of `content` that are in `payload`, by whole record
InPayload(payload, c) == \E j \in 1..Len(payload) : payload[j] = c

\* C12: a posting commit sends one create-posting-job call whose approvedContent
\* is, in batch order, the items whose approved was true when the commit
\* started, each with its topic and scheduled time, and sends no other call
\* when the answer arrives; every reply a commit posts was approved when that
\* commit started.
C12_OnlyApprovedCommitted ==
  [][/\ (ev'.op = "commit" /\ ev'.call = CreatePostingJobCall)
          => /\ \A k \in 1..Len(generatedContent) :
                    generatedContent[k].approved = "true"
                      <=> InPayload(ev'.arg.approvedContent, generatedContent[k])
             /\ \A j \in 1..Len(ev'.arg.approvedContent) :
                    \E k \in 1..Len(generatedContent) :
                       /\ generatedContent[k] = ev'.arg.approvedContent[j]
                       /\ generatedContent[k].approved = "true"
             /\ Len(ev'.arg.approvedContent) =
                  CountOf([k \in 1..Len(generatedContent) |-> generatedContent[k].approved],
                          {"true"})
             /\ Len(commits') = Len(commits) + 1
     /\ (ev'.op \in {"scheduled", "schedule_refused", "schedule_failed"})
          => /\ ev'.call # CreatePostingJobCall
             /\ Len(commits') = Len(commits) - 1
     /\ (ev'.op = "commit" /\ ev'.call = PostCall)
          => \E k \in 1..Len(generatedContent) :
                generatedContent[k].id = ev'.arg /\ generatedContent[k].approved = "true"
     /\ (ev'.op = "commit_next")
          => \E k \in 1..Len(commits) : \E j \in 1..Len(commits[k].approvedItems) :
                /\ commits[k].approvedItems[j].id = ev'.arg
                /\ commits[k].approvedItems[j].approved = "true"]_vars

\* a posting commit has just been sent for a batch of which one item is
\* approved and another is still pending
C12_Witness ==
  /\ ev.op = "commit" /\ ev.call = CreatePostingJobCall
  /\ Len(ev.arg.approvedContent) = 1
  /\ \E k \in 1..Len(generatedContent) : generatedContent[k].approved = "null"
  /\ \E k \in 1..Len(generatedContent) : generatedContent[k].approved = "true"

\* C13: when a regeneration (same or different source) succeeds, the item it
\* was asked for holds the content of the response and approved = null,
\* whatever approved was, and so is not among the approved items; the batch
\* keeps its length.
C13_RegenerateResetsApproval ==
  [][(ev'.op = "regenerated")
       => /\ Len(generatedContent') = Len(generatedContent)
          /\ \A k \in 1..Len(generatedContent) :
                generatedContent[k].id = ev'.arg.id
                  => /\ generatedContent'[k].content = ev'.arg.content
                     /\ generatedContent'[k].approved = "null"
          /\ \A j \in 1..Len(ApprovedItems(generatedContent')) :
                ApprovedItems(generatedContent')[j].id # ev'.arg.id]_vars

\* a regeneration has just succeeded on an item that was approved and held
\* other content
C13_Witness ==
  /\ ev.op = "regenerated"
  /\ ev.arg.before # <<>>
  /\ ev.arg.before[1].approved = "true"
  /\ ev.arg.before[1].content # ev.arg.content
  /\ \E k \in 1..Len(generatedContent) :
        generatedContent[k].id = ev.arg.id /\ generatedContent[k].approved = "null"

\* C14 (as the spec states it): when the backend call of a regeneration
\* throws or answers without success, at the pool fetch or at the generation
\* call, the batch is unchanged and an error message is set.
C14_RegenerationFailure ==
  [][(ev'.op \in {"regenerate_refused", "regenerate_failed"})
       => /\ generatedContent' = generatedContent
          /\ apiError' # "null"]_vars

\* C15: approving an item sets its approved to true and leaves its content
\* and every other item alone, and approving it once more changes nothing:
\* approve applied to the approved batch gives that batch back.
C15_IdempotentApprove ==
  [][(ev'.op = "approve")
       => /\ Approved(generatedContent', ev'.arg) = generatedContent'
          /\ Approved(Approved(generatedContent, ev'.arg), ev'.arg)
               = Approved(generatedContent, ev'.arg)
          /\ Len(generatedContent') = Len(generatedContent)
          /\ \A k \in 1..Len(generatedContent) :
                IF generatedContent[k].id = ev'.arg
                THEN /\ generatedContent'[k].approved = "true"
                     /\ generatedContent'[k].content = generatedContent[k].content
                     /\ generatedContent'[k].id = generatedContent[k].id
                ELSE generatedContent'[k] = generatedContent[k]]_vars

\* an item of a batch of two has just been approved, the other is pending
C15_Witness ==
  /\ ev.op = "approve"
  /\ Len(generatedContent) = 2
  /\ \E k \in 1..2 : generatedContent[k].id = ev.arg /\ generatedContent[k].approved = "true"
  /\ \E k \in 1..2 : generatedContent[k].id # ev.arg /\ generatedContent[k].approved = "null"

\* the tweetId the batch currently holds for the item `contentId`
CurrentTweetIds(contentId) ==
  {generatedContent[k].tweetId : k \in {j \in 1..Len(generatedContent) :
                                          generatedContent[j].id = contentId}}

\* C16 (as the spec states it): regenerateForDifferent on a reply picks a
\* source message other than the item's current one, so that on success the
\* item's tweetId has changed; when the fetched pool holds no message other
\* than the item's own, it sets an error, sends no generate-reply call and
\* leaves the batch unchanged.
C16_DifferentTweet ==
  [][/\ (ev'.op = "regenerate_picked")
          => /\ ev'.arg.picked # ev'.arg.tweetId
             /\ ev'.arg.picked \notin CurrentTweetIds(ev'.arg.id)
     /\ (/\ ev'.op = "regenerated"
         /\ ev'.arg.kind = "different" /\ ev'.arg.type = "reply")
          => \A k \in 1..Len(generatedContent) :
                generatedContent[k].id = ev'.arg.id
                  => generatedContent'[k].tweetId # generatedContent[k].tweetId
     /\ (/\ ev'.op \in {"regenerate_picked", "no_other_tweet", "regenerate_refused"}
         /\ ev'.arg.stage = "fetch"
         /\ DifferentTweets(ev'.arg.pool, ev'.arg.tweetId) = <<>>)
          => /\ apiError' # "null"
             /\ ev'.call = NoCall
             /\ generatedContent' = generatedContent]_vars

GenerateContentCall == <<"POST", "generate-content">>

\* every configured topic is the topic of the item
OnlyTopic(item) ==
  \A j \in 1..Len(AvailableTopics) : AvailableTopics[j] = item.topic

C18_CloseDiscardsBatch ==
  [][/\ (ev'.op = "close_review" /\ commits = <<>>)
          => /\ generatedContent' = <<>>
             /\ ~showContentApproval'
             /\ ev'.call = NoCall
             /\ commits' = <<>>
             /\ posted' = posted
     /\ (generatedContent = <<>> /\ ev'.op # "generation_done")
          => generatedContent' = <<>>
     /\ (generatedContent = <<>> /\ commits = <<>>)
          => /\ ev'.call \notin {PostCall, CreatePostingJobCall}
             /\ commits' = <<>>]_vars

\* the response of a regeneration that was in flight when the review was
\* closed has just arrived, successfully, and found nothing to update
C18_Witness ==
  /\ ev.op = "regenerated"
  /\ ev.arg.before = <<>>
  /\ generatedContent = <<>>
  /\ ~showContentApproval
  /\ commits = <<>>

\* C19: when a poll of bot-status fails, the hook's data is what it was, its
\* error is set, loading ends, and the displayed job list is unchanged.
C19_StaleOnError ==
  [][(ev'.op = "poll_failed")
       => /\ data' = data
          /\ error' # "null"
          /\ loading' = FALSE
          /\ jobs' = jobs]_vars

\* a poll has just failed while a snapshot with two jobs is displayed
C19_Witness ==
  /\ ev.op = "poll_failed"
  /\ data # NoData
  /\ Len(jobs) = 2
  /\ error # "null"

\* the id carries the sentinel marker
HasSentinel(id) == \E k \in 1..Len(id) : id[k] = "demo"

RECURSIVE WithoutSentinels(_)
\* the list with the jobs of sentinel id taken out, order and fields kept
WithoutSentinels(js) ==
  IF js = <<>> THEN <<>>
  ELSE IF HasSentinel(Head(js).id) THEN WithoutSentinels(Tail(js))
       ELSE <<Head(js)>> \o WithoutSentinels(Tail(js))

\* C20: when a snapshot carrying a job list is applied, the displayed list
\* is that list without its sentinel jobs, whatever was displayed before
\* (renamed locally or not); no displayed job has a sentinel id.
C20_RegistryProjection ==
  [][/\ (ev'.op = "snapshot" /\ data'.hasJobs)
          => jobs' = WithoutSentinels(data'.jobs)
     /\ \A k \in 1..Len(jobs') : ~HasSentinel(jobs'[k].id)]_vars

\* a snapshot holding a sentinel job and a real one has just been applied
\* while a rename is awaiting its answer
C20_Witness ==
  /\ ev.op = "snapshot"
  /\ data.hasJobs /\ Len(data.jobs) = 2
  /\ HasSentinel(data.jobs[1].id)
  /\ jobs = <<data.jobs[2]>>
  /\ renames # <<>>

\* C21 (as the spec states it): a successful rename changes the name of the
\* job with that id and nothing else in the list (ids, types, statuses,
\* settings and the other jobs are as before); a rename that fails, by a
\* thrown call or an unsuccessful answer, leaves the list unchanged and sets
\* an error.
C21_RenameFrame ==
  [][/\ (ev'.op = "rename_ok")
          => /\ Len(jobs') = Len(jobs)
             /\ \A k \in 1..Len(jobs) :
                   IF jobs[k].id = ev'.arg
                   THEN /\ jobs'[k] = [jobs[k] EXCEPT !.name = jobs'[k].name]
                        /\ jobs'[k].name = renames[1].newName
                   ELSE jobs'[k] = jobs[k]
     /\ (ev'.op \in {"rename_refused", "rename_failed"})
          => /\ jobs' = jobs
             /\ apiError' # "null"]_vars

\* minutes since midnight of an "HH:MM" string, read digit by digit
ClockMinutes(t) ==
  (DigitValue(t[1]) * 10 + DigitValue(t[2])) * 60 + DigitValue(t[4]) * 10 + DigitValue(t[5])

\* C22: in a batch that a posting run has just installed, the item at index
\* i (from 0) carries the time start + i * floor(windowMinutes / count),
\* written as HH:MM, where count is the job's posts per day; every such time
\* is before the end of the window.
C22_ScheduledTimes ==
  (ev.op = "generation_done" /\ showContentApproval /\ ~currentJobSettings.null)
    => LET count == currentJobSettings.postsPerDay
           start == ClockMinutes(currentJobSettings.postingTimeStart)
           end == ClockMinutes(currentJobSettings.postingTimeEnd) IN
       (count >= 1 /\ end > start /\ currentJobType = "posting")
         => \A k \in 1..Len(generatedContent) :
               LET t == generatedContent[k].scheduledTime IN
               /\ Len(t) = 5 /\ t[3] = ":"
               /\ \A p \in {1, 2, 4, 5} : IsDigit(t[p])
               /\ DigitValue(t[4]) < 6
               /\ ClockMinutes(t) = start + (k - 1) * ((end - start) \div count)
               /\ ClockMinutes(t) < end

\* four posts a day over 09:00-17:00, all four generated
C22_Witness ==
  /\ ev.op = "generation_done" /\ showContentApproval
  /\ currentJobSettings.postsPerDay = 4
  /\ currentJobSettings.postingTimeStart = T0900
  /\ currentJobSettings.postingTimeEnd = T1700
  /\ [k \in 1..Len(generatedContent) |-> generatedContent[k].scheduledTime]
       = << <<"0", "9", ":", "0", "0">>, <<"1", "1", ":", "0", "0">>,
            <<"1", "3", ":", "0", "0">>, <<"1", "5", ":", "0", "0">> >>

\* the intervals a polling client should own: its current one while it is
\* mounted with autoRefresh, none otherwise
OwnedTimers == IF mounted /\ options.autoRefresh THEN {intervalRef} ELSE {}

\* C23: whatever the sequence of mounts, endpoint changes, manual refetches
\* and unmounts, the live repeating timers are exactly one while the client is
\* mounted with autoRefresh and none otherwise; a fetch issued by a timer is
\* issued by the current timer of a mounted client, never by one from before
\* an unmount or an endpoint change; a manual refetch leaves the timer as it is.
C23_TimerLifecycle ==
  [][/\ timers = OwnedTimers /\ timers' = OwnedTimers'
     /\ (mounted /\ options.autoRefresh) => intervalRef # 0
     /\ (ev'.op = "poll")
          => /\ mounted
             /\ ev'.arg.timer = intervalRef
             /\ ev'.arg.timer = effects
     /\ (ev'.op = "retry")
          => /\ timers' = timers
             /\ intervalRef' = intervalRef]_vars

\* the third timer of the client (after an endpoint change and a remount, or
\* two of either) has just issued a fetch
C23_Witness ==
  /\ ev.op = "poll"
  /\ effects = MaxEffects
  /\ mounted /\ options.autoRefresh
  /\ timers = {MaxEffects}

\* the messages built from the one template for non-2xx answers
GenericHttpErrors == {HttpErrorMessage(status) : status \in FetchFailures \ {0}}

\* C24: a fetch answered with HTTP 429 ends in an error state of its own
\* kind, whose message is not the generic one built from the status code; the
\* data of the last successful fetch stay, and no fetch is issued in its place.
C24_RateLimited ==
  [][(ev'.op = "poll_failed" /\ ev'.arg.failure = 429)
       => /\ error' # "null"
          /\ error' \notin GenericHttpErrors
          /\ data' = data
          /\ Len(fetches') = Len(fetches) - 1
          /\ loading' = FALSE]_vars

\* the job commands whose call has resolved and whose 1000 ms timer is pending
PendingTimers == SelectSeq(jobOps, LAMBDA o : o.phase = "timer")

\* the job commands still waiting for the backend
PendingCalls == SelectSeq(jobOps, LAMBDA o : o.phase = "call")

C26_LastAnswerWins ==
  [][/\ (ev'.op = "snapshot")
          => /\ data' = ev'.arg.body
             /\ error' = error
             /\ loading' = FALSE
     /\ (ev'.op = "poll_failed")
          => /\ error' = ErrorMessage(ev'.arg.failure)
             /\ data' = data
             /\ loading' = FALSE]_vars

\* two fetches were in flight; the later one resolved first with a 2xx body,
\* then the earlier one resolved with a job list, which is what data holds
C26_Witness ==
  /\ ev.op = "snapshot"
  /\ ev.arg.request.overtaken
  /\ data = ev.arg.body
  /\ data.hasJobs
  /\ fetches = <<>>

\* the text of the item was written for the source the item now names
PairedWithSource(item) ==
  IF item.type = "reply"
  THEN /\ item.content.about = item.originalTweet
       /\ item.originalTweet = Tweet(item.tweetId).text
       /\ item.tweetAuthor = Tweet(item.tweetId).author
  ELSE item.content.about = <<item.topic>>

\* C27: at every moment the content of each reply item is a reply generated
\* for the tweet the item names (id, text and author of one tweet), and the
\* content of each post item was generated for the item's topic, whatever the
\* interleaving of the two regenerations.
C27_ContentSourcePairing ==
  \A k \in 1..Len(generatedContent) : PairedWithSource(generatedContent[k])

\* C28: no two reply items of the batch name the same source tweet id, after
\* the generation and after any sequence of regenerations for a different
\* tweet (the fetched pools carry no id twice).
C28_DistinctSourceTweets ==
  \A i, j \in 1..Len(generatedContent) :
     (/\ i # j
      /\ generatedContent[i].type = "reply"
      /\ generatedContent[j].type = "reply")
       => generatedContent[i].tweetId # generatedContent[j].tweetId

\* no backend call of a handler is outstanding and no delayed callback is pending
Quiescent ==
  /\ jobOps = <<>> /\ genRuns = <<>> /\ regens = <<>>
  /\ commits = <<>> /\ creates = <<>>

\* C29: once every handler that was started has run to its end (all backend
\* calls answered, all delayed callbacks fired), the loading marker is null.
C29_NoStuckSpinner == Quiescent => actionLoading = NULL

\* a reply was posted by a commit, the list of posted replies was closed, a
\* job command ran to the end of its timer, and nothing is outstanding
C29_Witness ==
  /\ Quiescent
  /\ actionLoading = NULL
  /\ ev.op = "job_action_timer"
  /\ posted # {}

\* the steps of approve, regenerate and regenerateForDifferent
ItemOps ==
  {"approve", "regenerate", "regenerate_different", "regenerate_fallback",
   "regenerated", "regenerate_refused", "regenerate_failed",
   "regenerate_picked", "no_other_tweet"}

\* the item a step of ItemOps was asked for
Subject(e) ==
  IF e.op \in {"approve", "regenerate", "regenerate_different", "regenerate_fallback"}
  THEN e.arg ELSE e.arg.id

\* C30: a step of approve, regenerate or regenerateForDifferent on item X
\* leaves the batch with the same items in the same order, and every item
\* other than X exactly as it was (id, content and approved flag included);
\* a successful regenerate for the same source also leaves X's id, type,
\* scheduledTime, source tweet (id, text, author) and topic as they were.
C30_PerItemFrame ==
  [][(ev'.op \in ItemOps)
       => /\ Len(generatedContent') = Len(generatedContent)
          /\ \A k \in 1..Len(generatedContent) :
                /\ generatedContent'[k].id = generatedContent[k].id
                /\ (generatedContent[k].id # Subject(ev'))
                     => generatedContent'[k] = generatedContent[k]
                /\ (ev'.op = "regenerated" /\ ev'.arg.kind = "same")
                     => /\ generatedContent'[k].type = generatedContent[k].type
                        /\ generatedContent'[k].scheduledTime
                             = generatedContent[k].scheduledTime
                        /\ generatedContent'[k].tweetId = generatedContent[k].tweetId
                        /\ generatedContent'[k].originalTweet
                             = generatedContent[k].originalTweet
                        /\ generatedContent'[k].tweetAuthor
                             = generatedContent[k].tweetAuthor
                        /\ generatedContent'[k].topic = generatedContent[k].topic]_vars

\* a batch of two items, the other one approved: a regeneration for the same
\* source has just replaced the content of one of them
C30_Witness ==
  /\ ev.op = "regenerated" /\ ev.arg.kind = "same"
  /\ Len(generatedContent) = 2
  /\ ev.arg.before # <<>>
  /\ ev.arg.before[1].content # ev.arg.content
  /\ \E k \in 1..2 :
        /\ generatedContent[k].id = ev.arg.id
        /\ generatedContent[k].content = ev.arg.content
        /\ generatedContent[3 - k].approved = "true"

====
